---------------------------- MODULE Spec2Model ----------------------------
(***************************************************************************)
(* Model of the document-formatting HTTP service of src/main.go:           *)
(*   POST /format  served by Logger -> FormatMetricsMiddleware ->          *)
(*                 formatHandler                                           *)
(*   GET  /metrics served by Logger -> MetricsHandler                      *)
(* and of the shared FormatAPIMetrics object guarded by its mutex.         *)
(* Every request is served by its own goroutine (a task); the steps of a   *)
(* task interleave with the steps of all other tasks.                      *)
(***************************************************************************)
EXTENDS Integers, Sequences, FiniteSets, TLC

\* ------------------------------------------------------------- bounds
NumTasks == 2          \* goroutines serving requests concurrently
MaxRequests == 3       \* requests accepted over a run
MaxBodySize == 1       \* largest request body, in bytes

\* ------------------------------------------------- program constants
StatusOK == 200
StatusBadRequest == 400
StatusInternalServerError == 500
Millisecond == 1000000     \* time.Millisecond, in nanoseconds

Tasks == 1..NumTasks

\* Values of the "type" query parameter sent by clients.
Types == {"", "JSON", "xml", "html", "yaml"}

\* Elapsed times time.Since can return, in nanoseconds.
Durations == {600000, 1500000}

VARIABLES
    RequestCount,    \* formatMetrics.RequestCount
    ErrorCount,      \* formatMetrics.ErrorCount
    TotalDuration,   \* formatMetrics.TotalDuration (ns)
    MaxPayloadSize,  \* formatMetrics.MaxPayloadSize
    mu,              \* formatMetrics.mu: the set of tasks holding it ({} = free)
    pc,              \* position of each task in its handler chain
    req,             \* the request a task is serving
    payloadSize,     \* FormatMetricsMiddleware's local payloadSize
    duration,        \* FormatMetricsMiddleware's local duration
    averageDuration, \* MetricsHandler's local averageDuration
    responses,       \* what each task has written to its ResponseWriter
    snap,            \* the JSON object MetricsHandler encoded
    trace,           \* the body reads and formatter calls a task has made
    errIncs,         \* how often the current request incremented ErrorCount
    started,         \* requests accepted so far
    postsStarted,    \* POST /format requests accepted so far
    completedOK,     \* POST /format requests completed with 200
    completedFail,   \* POST /format requests completed with 4xx/5xx
    maxSeen,         \* largest body among the completed POST /format requests
    hist             \* the (duration, payloadSize) of each recorded request

metricsVars == <<RequestCount, ErrorCount, TotalDuration, MaxPayloadSize>>
localVars == <<payloadSize, duration, averageDuration>>
ghostVars == <<started, postsStarted, completedOK, completedFail, maxSeen, hist>>
vars == <<RequestCount, ErrorCount, TotalDuration, MaxPayloadSize, mu, pc, req,
          payloadSize, duration, averageDuration, responses, snap, trace,
          errIncs, started, postsStarted, completedOK, completedFail, maxSeen,
          hist>>

NoReq == [method |-> "none", type |-> "", size |-> 0, wf |-> FALSE, readable |-> FALSE]
NoSnap == [taken |-> FALSE, request_count |-> 0, error_count |-> 0,
           total_duration_ms |-> 0, average_duration_ms |-> 0,
           max_payload_size_bytes |-> 0, total |-> 0, posts |-> 0]

\* The POST /format requests clients send: a type parameter and a body of
\* some size that arrives whole (well-formed in the format named, or not) or
\* whose read fails after size bytes.  The empty body is well-formed in no
\* format.
Requests ==
    { r \in [method : {"POST"}, type : Types, size : 0..MaxBodySize,
             wf : BOOLEAN, readable : BOOLEAN] :
        r.wf => (r.readable /\ r.size > 0) }

Max2(a, b) == IF a > b THEN a ELSE b

\* ------------------------------------------------------- pure functions

\* strings.ToLower on the values of Types
ToLower(s) == IF s = "JSON" THEN "json" ELSE s

\* time.Duration.Milliseconds(): whole milliseconds of a nanosecond count
Milliseconds(d) == d \div Millisecond

\* json.Unmarshal accepts exactly the well-formed documents (the empty body
\* is not one); json.MarshalIndent of the parsed value cannot fail.
formatJSON(data) ==
    IF data.wf /\ data.size > 0
    THEN [err |-> FALSE, out |-> "json-indented"]
    ELSE [err |-> TRUE, out |-> "failed to parse JSON"]

\* xml.Unmarshal into an interface value skips a well-formed element and
\* reports a syntax error (or EOF on the empty body) otherwise.
formatXML(data) ==
    IF data.wf /\ data.size > 0
    THEN [err |-> FALSE, out |-> "xml-indented-newline"]
    ELSE [err |-> TRUE, out |-> "failed to parse XML"]

\* html.Parse of an in-memory reader never fails: malformed markup is repaired.
formatHTML(data) == [err |-> FALSE, out |-> "html-rendered"]

\* Mutant: the average divides by one request too many.
AverageOffByOne(total, count) == total \div (count + 1)

\* the averageDuration computation of MetricsHandler, in nanoseconds
Average(total, count) == IF count > 0 THEN total \div count ELSE 0

\* ----------------------------------------------------------------- Init
Init ==
    /\ RequestCount = 0
    /\ ErrorCount = 0
    /\ TotalDuration = 0
    /\ MaxPayloadSize = 0
    /\ mu = {}
    /\ pc = [t \in Tasks |-> "idle"]
    /\ req = [t \in Tasks |-> NoReq]
    /\ payloadSize = [t \in Tasks |-> 0]
    /\ duration = [t \in Tasks |-> 0]
    /\ averageDuration = [t \in Tasks |-> 0]
    /\ responses = [t \in Tasks |-> <<>>]
    /\ snap = [t \in Tasks |-> NoSnap]
    /\ trace = [t \in Tasks |-> <<>>]
    /\ errIncs = [t \in Tasks |-> 0]
    /\ started = 0
    /\ postsStarted = 0
    /\ completedOK = 0
    /\ completedFail = 0
    /\ maxSeen = 0
    /\ hist = <<>>

\* A task is free to accept a request when it serves none.
Free(t) == pc[t] \in {"idle", "done"}

\* The local state of a task at the start of a request.
Reset(t) ==
    /\ payloadSize' = [payloadSize EXCEPT ![t] = 0]
    /\ duration' = [duration EXCEPT ![t] = 0]
    /\ averageDuration' = [averageDuration EXCEPT ![t] = 0]
    /\ responses' = [responses EXCEPT ![t] = <<>>]
    /\ snap' = [snap EXCEPT ![t] = NoSnap]
    /\ trace' = [trace EXCEPT ![t] = <<>>]
    /\ errIncs' = [errIncs EXCEPT ![t] = 0]

\* The completion of a POST /format request: the middleware returns to Logger.
Complete(t, status) ==
    /\ completedOK' = IF status = StatusOK THEN completedOK + 1 ELSE completedOK
    /\ completedFail' = IF status = StatusOK THEN completedFail ELSE completedFail + 1
    /\ maxSeen' = Max2(maxSeen, req[t].size)

\* ----------------------------------------------------- POST /format chain

\* The router hands a POST /format request, one of R, to a new task.
StartFormatOf(t, R) ==
    /\ Free(t)
    /\ started < MaxRequests
    /\ \E r \in R : req' = [req EXCEPT ![t] = r]
    /\ pc' = [pc EXCEPT ![t] = "mw_read"]
    /\ Reset(t)
    /\ started' = started + 1
    /\ postsStarted' = postsStarted + 1
    /\ UNCHANGED <<metricsVars, mu, completedOK, completedFail, maxSeen, hist>>

StartFormat(t) == StartFormatOf(t, Requests)

\* FormatMetricsMiddleware: ioutil.ReadAll(r.Body); on error answer 400 and
\* return, else restore the body and set payloadSize.
MwReadBody(t) ==
    /\ pc[t] = "mw_read"
    /\ trace' = [trace EXCEPT ![t] = Append(@, "mw_read")]
    /\ IF ~req[t].readable
       THEN /\ responses' = [responses EXCEPT ![t] =
                   Append(@, [status |-> StatusBadRequest,
                              body |-> "Failed to read request body"])]
            /\ pc' = [pc EXCEPT ![t] = "done"]
            /\ Complete(t, StatusBadRequest)
            /\ UNCHANGED payloadSize
       ELSE /\ payloadSize' = [payloadSize EXCEPT ![t] = req[t].size]
            /\ pc' = [pc EXCEPT ![t] = "h_type"]
            /\ UNCHANGED <<responses, completedOK, completedFail, maxSeen>>
    /\ UNCHANGED <<metricsVars, mu, req, duration, averageDuration, snap, errIncs,
                   started, postsStarted, hist>>

\* formatHandler: the "type" parameter, lowercased; 400 when it is empty.
HandlerCheckType(t) ==
    /\ pc[t] = "h_type"
    /\ IF ToLower(req[t].type) = ""
       THEN /\ responses' = [responses EXCEPT ![t] =
                   Append(@, [status |-> StatusBadRequest,
                              body |-> "Missing 'type' parameter"])]
            /\ pc' = [pc EXCEPT ![t] = "h_lock"]
       ELSE /\ pc' = [pc EXCEPT ![t] = "h_read"]
            /\ UNCHANGED responses
    /\ UNCHANGED <<metricsVars, mu, req, localVars, snap, trace, errIncs, ghostVars>>

\* formatHandler: ioutil.ReadAll of the body the middleware restored; reading
\* the in-memory buffer returns no error.
HandlerReadBody(t) ==
    /\ pc[t] = "h_read"
    /\ LET err == FALSE IN
       IF err
       THEN /\ responses' = [responses EXCEPT ![t] =
                   Append(@, [status |-> StatusBadRequest,
                              body |-> "Failed to read request body"])]
            /\ pc' = [pc EXCEPT ![t] = "h_lock"]
       ELSE /\ pc' = [pc EXCEPT ![t] = "h_dispatch"]
            /\ UNCHANGED responses
    /\ trace' = [trace EXCEPT ![t] = Append(@, "h_read")]
    /\ UNCHANGED <<metricsVars, mu, req, localVars, snap, errIncs, ghostVars>>

\* Mutants of the dispatch: the default case falls through to the HTML
\* formatter; a formatter error is answered 200.
HandlerDispatchFallthrough(t) ==
    /\ pc[t] = "h_dispatch"
    /\ LET contentType == ToLower(req[t].type)
           data == [size |-> req[t].size, wf |-> req[t].wf]
           res == IF contentType = "json" THEN formatJSON(data)
                  ELSE IF contentType = "xml" THEN formatXML(data)
                  ELSE formatHTML(data)
       IN  /\ trace' = [trace EXCEPT ![t] = Append(@, "format")]
           /\ IF res.err
              THEN /\ responses' = [responses EXCEPT ![t] =
                          Append(@, [status |-> StatusInternalServerError,
                                     body |-> res.out])]
                   /\ pc' = [pc EXCEPT ![t] = "h_lock"]
              ELSE /\ responses' = [responses EXCEPT ![t] =
                          Append(@, [status |-> StatusOK, body |-> res.out])]
                   /\ pc' = [pc EXCEPT ![t] = "mw_since"]
    /\ UNCHANGED <<metricsVars, mu, req, localVars, snap, errIncs, ghostVars>>

HandlerDispatchErrorAsOK(t) ==
    /\ pc[t] = "h_dispatch"
    /\ LET contentType == ToLower(req[t].type)
           data == [size |-> req[t].size, wf |-> req[t].wf]
           res == IF contentType = "json" THEN formatJSON(data)
                  ELSE IF contentType = "xml" THEN formatXML(data)
                  ELSE formatHTML(data)
       IN  IF contentType \notin {"json", "xml", "html"}
           THEN /\ responses' = [responses EXCEPT ![t] =
                       Append(@, [status |-> StatusBadRequest,
                                  body |-> "Invalid 'type' parameter"])]
                /\ pc' = [pc EXCEPT ![t] = "h_lock"]
                /\ UNCHANGED trace
           ELSE /\ trace' = [trace EXCEPT ![t] = Append(@, "format")]
                /\ responses' = [responses EXCEPT ![t] =
                       Append(@, [status |-> StatusOK, body |-> res.out])]
                /\ pc' = [pc EXCEPT ![t] = IF res.err THEN "h_lock" ELSE "mw_since"]
    /\ UNCHANGED <<metricsVars, mu, req, localVars, snap, errIncs, ghostVars>>

\* formatHandler: the switch on the content type, the formatter call and the
\* response (400 for an unsupported type, 500 for a formatter error, 200 with
\* the formatted bytes otherwise).
HandlerDispatch(t) ==
    /\ pc[t] = "h_dispatch"
    /\ LET contentType == ToLower(req[t].type)
           data == [size |-> req[t].size, wf |-> req[t].wf]
           res == IF contentType = "json" THEN formatJSON(data)
                  ELSE IF contentType = "xml" THEN formatXML(data)
                  ELSE formatHTML(data)
       IN  IF contentType \notin {"json", "xml", "html"}
           THEN /\ responses' = [responses EXCEPT ![t] =
                       Append(@, [status |-> StatusBadRequest,
                                  body |-> "Invalid 'type' parameter"])]
                /\ pc' = [pc EXCEPT ![t] = "h_lock"]
                /\ UNCHANGED trace
           ELSE /\ trace' = [trace EXCEPT ![t] = Append(@, "format")]
                /\ IF res.err
                   THEN /\ responses' = [responses EXCEPT ![t] =
                               Append(@, [status |-> StatusInternalServerError,
                                          body |-> res.out])]
                        /\ pc' = [pc EXCEPT ![t] = "h_lock"]
                   ELSE /\ responses' = [responses EXCEPT ![t] =
                               Append(@, [status |-> StatusOK, body |-> res.out])]
                        /\ pc' = [pc EXCEPT ![t] = "mw_since"]
    /\ UNCHANGED <<metricsVars, mu, req, localVars, snap, errIncs, ghostVars>>

\* formatHandler, error paths: formatMetrics.mu.Lock()
HandlerLock(t) ==
    /\ pc[t] = "h_lock"
    /\ mu = {}
    /\ mu' = {t}
    /\ pc' = [pc EXCEPT ![t] = "h_inc"]
    /\ UNCHANGED <<metricsVars, req, localVars, responses, snap, trace, errIncs,
                   ghostVars>>

\* formatHandler, error paths: formatMetrics.ErrorCount++
HandlerRecordError(t) ==
    /\ pc[t] = "h_inc"
    /\ ErrorCount' = ErrorCount + 1
    /\ errIncs' = [errIncs EXCEPT ![t] = @ + 1]
    /\ pc' = [pc EXCEPT ![t] = "h_unlock"]
    /\ UNCHANGED <<RequestCount, TotalDuration, MaxPayloadSize, mu, req, localVars,
                   responses, snap, trace, ghostVars>>

\* Mutant: the error path returns without releasing the lock.
HandlerUnlockMissing(t) ==
    /\ pc[t] = "h_unlock"
    /\ pc' = [pc EXCEPT ![t] = "mw_since"]
    /\ UNCHANGED <<metricsVars, mu, req, localVars, responses, snap, trace, errIncs,
                   ghostVars>>

\* formatHandler, error paths: formatMetrics.mu.Unlock(); return
HandlerUnlock(t) ==
    /\ pc[t] = "h_unlock"
    /\ mu' = mu \ {t}
    /\ pc' = [pc EXCEPT ![t] = "mw_since"]
    /\ UNCHANGED <<metricsVars, req, localVars, responses, snap, trace, errIncs,
                   ghostVars>>

\* FormatMetricsMiddleware: duration := time.Since(start), one of D
MwSinceOf(t, D) ==
    /\ pc[t] = "mw_since"
    /\ \E d \in D : duration' = [duration EXCEPT ![t] = d]
    /\ pc' = [pc EXCEPT ![t] = "mw_lock"]
    /\ UNCHANGED <<metricsVars, mu, req, payloadSize, averageDuration, responses,
                   snap, trace, errIncs, ghostVars>>

MwSince(t) == MwSinceOf(t, Durations)

\* FormatMetricsMiddleware: formatMetrics.mu.Lock()
MwLock(t) ==
    /\ pc[t] = "mw_lock"
    /\ mu = {}
    /\ mu' = {t}
    /\ pc' = [pc EXCEPT ![t] = "mw_count"]
    /\ UNCHANGED <<metricsVars, req, localVars, responses, snap, trace, errIncs,
                   ghostVars>>

\* FormatMetricsMiddleware: formatMetrics.RequestCount++
MwRequestCount(t) ==
    /\ pc[t] = "mw_count"
    /\ RequestCount' = RequestCount + 1
    /\ hist' = Append(hist, [d |-> duration[t], p |-> payloadSize[t]])
    /\ pc' = [pc EXCEPT ![t] = "mw_total"]
    /\ UNCHANGED <<ErrorCount, TotalDuration, MaxPayloadSize, mu, req, localVars,
                   responses, snap, trace, errIncs, started, postsStarted,
                   completedOK, completedFail, maxSeen>>

\* FormatMetricsMiddleware: formatMetrics.TotalDuration += duration
MwTotalDuration(t) ==
    /\ pc[t] = "mw_total"
    /\ TotalDuration' = TotalDuration + duration[t]
    /\ pc' = [pc EXCEPT ![t] = "mw_max"]
    /\ UNCHANGED <<RequestCount, ErrorCount, MaxPayloadSize, mu, req, localVars,
                   responses, snap, trace, errIncs, ghostVars>>

\* Mutant: the maximum is overwritten by every request.
MwMaxPayloadOverwrite(t) ==
    /\ pc[t] = "mw_max"
    /\ MaxPayloadSize' = payloadSize[t]
    /\ pc' = [pc EXCEPT ![t] = "mw_unlock"]
    /\ UNCHANGED <<RequestCount, ErrorCount, TotalDuration, mu, req, localVars,
                   responses, snap, trace, errIncs, ghostVars>>

\* FormatMetricsMiddleware: if payloadSize > MaxPayloadSize { MaxPayloadSize = payloadSize }
MwMaxPayload(t) ==
    /\ pc[t] = "mw_max"
    /\ MaxPayloadSize' = IF payloadSize[t] > MaxPayloadSize
                         THEN payloadSize[t] ELSE MaxPayloadSize
    /\ pc' = [pc EXCEPT ![t] = "mw_unlock"]
    /\ UNCHANGED <<RequestCount, ErrorCount, TotalDuration, mu, req, localVars,
                   responses, snap, trace, errIncs, ghostVars>>

\* FormatMetricsMiddleware: the deferred formatMetrics.mu.Unlock(), and return
MwUnlock(t) ==
    /\ pc[t] = "mw_unlock"
    /\ mu' = mu \ {t}
    /\ pc' = [pc EXCEPT ![t] = "done"]
    /\ Complete(t, responses[t][1].status)
    /\ UNCHANGED <<metricsVars, req, localVars, responses, snap, trace, errIncs,
                   started, postsStarted, hist>>

\* ------------------------------------------------------ GET /metrics chain

\* The router hands a GET /metrics request to a new task.
StartMetrics(t) ==
    /\ Free(t)
    /\ started < MaxRequests
    /\ req' = [req EXCEPT ![t] = [NoReq EXCEPT !.method = "GET"]]
    /\ pc' = [pc EXCEPT ![t] = "m_lock"]
    /\ Reset(t)
    /\ started' = started + 1
    /\ UNCHANGED <<metricsVars, mu, postsStarted, completedOK, completedFail,
                   maxSeen, hist>>

\* Mutant: MetricsHandler reads the metrics without taking the lock.
MetricsLockSkipped(t) ==
    /\ pc[t] = "m_lock"
    /\ pc' = [pc EXCEPT ![t] = "m_avg"]
    /\ UNCHANGED <<metricsVars, mu, req, localVars, responses, snap, trace, errIncs,
                   ghostVars>>

\* MetricsHandler: formatMetrics.mu.Lock()
MetricsLock(t) ==
    /\ pc[t] = "m_lock"
    /\ mu = {}
    /\ mu' = {t}
    /\ pc' = [pc EXCEPT ![t] = "m_avg"]
    /\ UNCHANGED <<metricsVars, req, localVars, responses, snap, trace, errIncs,
                   ghostVars>>

\* MetricsHandler: averageDuration, zero unless RequestCount > 0
MetricsAverage(t) ==
    /\ pc[t] = "m_avg"
    /\ averageDuration' = [averageDuration EXCEPT ![t] =
                              Average(TotalDuration, RequestCount)]
    /\ pc' = [pc EXCEPT ![t] = "m_write"]
    /\ UNCHANGED <<metricsVars, mu, req, payloadSize, duration, responses, snap,
                   trace, errIncs, ghostVars>>

\* MetricsHandler: the header, the 200 status and the JSON object, written to
\* the client while the lock is held.
MetricsEncode(t) ==
    /\ pc[t] = "m_write"
    /\ snap' = [snap EXCEPT ![t] =
                  [taken |-> TRUE,
                   request_count |-> RequestCount,
                   error_count |-> ErrorCount,
                   total_duration_ms |-> Milliseconds(TotalDuration),
                   average_duration_ms |-> Milliseconds(averageDuration[t]),
                   max_payload_size_bytes |-> MaxPayloadSize,
                   total |-> TotalDuration,
                   posts |-> postsStarted]]
    /\ responses' = [responses EXCEPT ![t] =
                        Append(@, [status |-> StatusOK, body |-> "metrics"])]
    /\ pc' = [pc EXCEPT ![t] = "m_unlock"]
    /\ UNCHANGED <<metricsVars, mu, req, localVars, trace, errIncs, ghostVars>>

\* MetricsHandler: the deferred formatMetrics.mu.Unlock(), and return
MetricsUnlock(t) ==
    /\ pc[t] = "m_unlock"
    /\ mu' = mu \ {t}
    /\ pc' = [pc EXCEPT ![t] = "done"]
    /\ UNCHANGED <<metricsVars, req, localVars, responses, snap, trace, errIncs,
                   ghostVars>>

\* ------------------------------------------------------- specification
Start(t) == StartFormat(t) \/ StartMetrics(t)

\* The steps of a task that take no input.
Handle(t) ==
    \/ MwReadBody(t)
    \/ HandlerCheckType(t)
    \/ HandlerReadBody(t)
    \/ HandlerDispatch(t)
    \/ HandlerLock(t)
    \/ HandlerRecordError(t)
    \/ HandlerUnlock(t)
    \/ MwLock(t)
    \/ MwRequestCount(t)
    \/ MwTotalDuration(t)
    \/ MwMaxPayload(t)
    \/ MwUnlock(t)
    \/ MetricsLock(t)
    \/ MetricsAverage(t)
    \/ MetricsEncode(t)
    \/ MetricsUnlock(t)

Step(t) == MwSince(t) \/ Handle(t)

Next == \E t \in Tasks : Start(t) \/ Step(t)

Spec == Init /\ [][Next]_vars

\* The specification of the liveness property.  Whether a request completes
\* depends on the path it takes through the chain, not on its data, so the
\* clients send one request per path (unreadable body, missing type,
\* unsupported type, formatter error, success) and every request takes the
\* same time.  Every goroutine that can run is eventually scheduled, and
\* sync.Mutex hands the lock to a waiter once it is free.
FairRequests ==
    { r \in Requests :
        /\ r.size = MaxBodySize
        /\ r.type \in {"", "JSON", "yaml"}
        /\ (r.type # "JSON") => r.readable }

FairDurations == {1500000}

FairStep(t) == MwSinceOf(t, FairDurations) \/ Handle(t)

FairNext ==
    \E t \in Tasks : StartFormatOf(t, FairRequests) \/ StartMetrics(t) \/ FairStep(t)

FairSpec == Init /\ [][FairNext]_vars /\ \A t \in Tasks : WF_vars(FairStep(t))

\* ------------------------------------------------------------ properties
Supported == {"json", "xml", "html"}

IsPost(t) == req[t].method = "POST"
InFlightPost(t) == IsPost(t) /\ pc[t] # "done"
Quiescent == \A t \in Tasks : ~InFlightPost(t)
Responded(t) == Len(responses[t]) > 0
StatusOf(t) == responses[t][1].status

\* What the formatter selected by a request returns.
Formatted(r) ==
    LET data == [size |-> r.size, wf |-> r.wf] IN
    CASE ToLower(r.type) = "json" -> formatJSON(data)
      [] ToLower(r.type) = "xml" -> formatXML(data)
      [] OTHER -> formatHTML(data)

MissingParameter(r) == ToLower(r.type) = ""
UnsupportedType(r) == ToLower(r.type) # "" /\ ToLower(r.type) \notin Supported
BodyReadFailure(r) == ~r.readable
FormatterFailure(r) ==
    r.readable /\ ToLower(r.type) \in Supported /\ Formatted(r).err

\* Positions at which a task asks for the metrics lock, holds it over field
\* reads and updates only, or holds it while writing to the client.
LockWaits == {"h_lock", "mw_lock", "m_lock"}
FieldSteps == {"h_inc", "h_unlock", "mw_count", "mw_total", "mw_max", "mw_unlock",
               "m_avg", "m_unlock"}
IOSteps == {"mw_read", "h_read", "h_dispatch", "m_write"}

RECURSIVE SumDurations(_), MaxPayloads(_)
\* The total duration and the largest payload of the first k recorded requests.
SumDurations(k) == IF k = 0 THEN 0 ELSE SumDurations(k - 1) + hist[k].d
MaxPayloads(k) == IF k = 0 THEN 0 ELSE Max2(MaxPayloads(k - 1), hist[k].p)

\* C1: in every reachable state ErrorCount <= RequestCount, and no
\* GET /metrics snapshot reports error_count > request_count.
C1_ErrorCountAtMostRequestCount ==
    /\ ErrorCount <= RequestCount
    /\ \A t \in Tasks : snap[t].taken => snap[t].error_count <= snap[t].request_count

\* C2: once no POST /format request is in flight, RequestCount equals the
\* number of requests completed with 200 plus the number completed with
\* 4xx/5xx (a 400 for an unreadable body included).
C2_EveryCompletedRequestCounted ==
    Quiescent => RequestCount = completedOK + completedFail

\* C3: a completed POST /format request that failed with MissingParameter,
\* BodyReadFailure or a formatter error produced one response and incremented
\* ErrorCount exactly once, a request answered 200 never incremented it, and
\* ErrorCount is at least the number of such failed requests.
C3_FailureRecordedExactlyOnce ==
    /\ \A t \in Tasks : (IsPost(t) /\ pc[t] = "done") =>
          /\ Len(responses[t]) = 1
          /\ (MissingParameter(req[t]) \/ BodyReadFailure(req[t])
                \/ FormatterFailure(req[t])) => errIncs[t] = 1
          /\ StatusOf(t) = StatusOK => errIncs[t] = 0
    /\ ErrorCount >= Cardinality({t \in Tasks :
          /\ IsPost(t) /\ pc[t] = "done"
          /\ (MissingParameter(req[t]) \/ BodyReadFailure(req[t])
                \/ FormatterFailure(req[t]))})

\* C4 (part): MaxPayloadSize never decreases across a step.
C4_MaxPayloadNeverDecreases == [][MaxPayloadSize' >= MaxPayloadSize]_vars

\* C4: whenever no POST /format request is in flight, MaxPayloadSize equals
\* the largest body size among the POST /format requests handled so far,
\* whatever their outcome, and it never exceeds the largest body received.
C4_MaxPayloadIsLargestBody ==
    /\ Quiescent => MaxPayloadSize = maxSeen
    /\ \A m \in 1..MaxPayloadSize :
          \/ maxSeen >= m
          \/ \E t \in Tasks : InFlightPost(t) /\ pc[t] # "mw_read" /\ req[t].size >= m

\* C5: each POST /format request gets exactly one response, 400 if the type
\* is absent or unsupported or the body is unreadable, 500 if the selected
\* formatter fails, and 200 with the formatted bytes if and only if the
\* formatter succeeds; never two status codes.
C5_OneResponseDeterminedByOutcome ==
    \A t \in Tasks : IsPost(t) =>
        /\ Len(responses[t]) <= 1
        /\ pc[t] = "done" => Len(responses[t]) = 1
        /\ Responded(t) =>
              LET r == req[t]
                  bad == ~r.readable \/ ToLower(r.type) \notin Supported
              IN  /\ bad => StatusOf(t) = StatusBadRequest
                  /\ (~bad /\ Formatted(r).err) => StatusOf(t) = StatusInternalServerError
                  /\ (StatusOf(t) = StatusOK) <=> (~bad /\ ~Formatted(r).err)
                  /\ (responses[t][1].body = Formatted(r).out)
                        <=> (StatusOf(t) = StatusOK \/ FormatterFailure(r))
                  /\ StatusOf(t) = StatusOK => responses[t][1].body
                        \in {"json-indented", "xml-indented-newline", "html-rendered"}

\* C5 witness: a request whose formatter failed has been answered 500 while
\* another has been answered 200.
C5_Witness ==
    \E t, u \in Tasks :
        /\ IsPost(t) /\ pc[t] = "done" /\ FormatterFailure(req[t])
        /\ StatusOf(t) = StatusInternalServerError
        /\ IsPost(u) /\ pc[u] = "done" /\ StatusOf(u) = StatusOK

\* C6: a snapshot reports average 0 when RequestCount is 0 and otherwise the
\* integer quotient of TotalDuration by RequestCount (in whole milliseconds);
\* before any POST /format request it reports request_count = 0,
\* error_count = 0 and average_duration_ms = 0.
C6_AverageIsQuotientOrZero ==
    \A t \in Tasks : snap[t].taken =>
        /\ snap[t].request_count = 0 => snap[t].average_duration_ms = 0
        /\ snap[t].request_count > 0 =>
              snap[t].average_duration_ms =
                  (snap[t].total \div snap[t].request_count) \div Millisecond
        /\ snap[t].posts = 0 =>
              /\ snap[t].request_count = 0
              /\ snap[t].error_count = 0
              /\ snap[t].average_duration_ms = 0

\* C6 witness: a snapshot of a recorded request with a non-zero average.
C6_Witness ==
    \E t \in Tasks :
        snap[t].taken /\ snap[t].request_count > 0 /\ snap[t].average_duration_ms > 0

\* C7: the metrics lock is held only across field reads and updates, never
\* while its holder writes a response, and no task waits for the lock while
\* its holder performs I/O.
C7_LockHeldOnlyOverFieldAccess ==
    /\ \A t \in mu : pc[t] \in FieldSteps
    /\ ~ \E t \in mu, u \in Tasks : pc[t] \in IOSteps /\ pc[u] \in LockWaits

\* C8 (as claimed): a request with an unsupported type is answered 400
\* without its body having been read and without a formatter call.
C8_UnsupportedTypeAnsweredWithoutRead ==
    \A t \in Tasks : (IsPost(t) /\ UnsupportedType(req[t]) /\ Responded(t)) =>
        /\ StatusOf(t) = StatusBadRequest
        /\ trace[t] = <<>>

\* C8 (amended): a request with an unsupported type is answered 400 without
\* any formatter call, after the middleware has read its body; when that read
\* succeeded formatHandler has read the body again before answering and
\* records the error exactly once.
C8_UnsupportedTypeAnsweredAfterRead ==
    \A t \in Tasks : (IsPost(t) /\ UnsupportedType(req[t]) /\ Responded(t)) =>
        /\ StatusOf(t) = StatusBadRequest
        /\ \A i \in 1..Len(trace[t]) : trace[t][i] # "format"
        /\ Len(trace[t]) >= 1 /\ trace[t][1] = "mw_read"
        /\ req[t].readable =>
              /\ trace[t] = <<"mw_read", "h_read">>
              /\ pc[t] = "done" => errIncs[t] = 1

\* C8 witness: a completed request with an unsupported type and a readable body.
C8_Witness ==
    \E t \in Tasks :
        /\ IsPost(t) /\ UnsupportedType(req[t]) /\ req[t].readable
        /\ pc[t] = "done" /\ errIncs[t] = 1

\* C9: every snapshot shows RequestCount, TotalDuration and MaxPayloadSize as
\* they stand after a whole number k of recorded requests.
C9_SnapshotSeesWholeUpdates ==
    \A t \in Tasks : snap[t].taken =>
        \E k \in 0..Len(hist) :
            /\ snap[t].request_count = k
            /\ snap[t].total = SumDurations(k)
            /\ snap[t].total_duration_ms = SumDurations(k) \div Millisecond
            /\ snap[t].max_payload_size_bytes = MaxPayloads(k)

\* C9 witness: a snapshot of one recorded request, taken while a POST /format
\* request waits to record itself.
C9_Witness ==
    \E t, u \in Tasks :
        /\ snap[t].taken /\ pc[t] = "m_unlock" /\ snap[t].request_count = 1
        /\ snap[t].max_payload_size_bytes > 0
        /\ pc[u] = "mw_lock"

\* C10: no task asks for the metrics lock while holding it, every started
\* request eventually completes, and the lock is eventually free.
C10_LockNeverDeadlocks ==
    /\ [](\A t \in Tasks : pc[t] \in LockWaits => t \notin mu)
    /\ \A t \in Tasks : (pc[t] # "idle") ~> (pc[t] = "done")
    /\ (mu # {}) ~> (mu = {})

\* C10 witness: a task waits for the lock another task holds.
C10_Witness ==
    \E t, u \in Tasks : t # u /\ pc[t] \in LockWaits /\ mu = {u}

=============================================================================
